---- MODULE Spec2Model ----
(***************************************************************************)
(* A model of the Esri grid package (model/esrigrid.go): the               *)
(* ConcreteEsriGrid object, its setters, and ReadEsriGridFromFile taken    *)
(* line by line.  Text is a sequence of one-character strings; numbers are *)
(* integers.                                                               *)
(***************************************************************************)
EXTENDS Integers, Sequences, FiniteSets, TLC

\* Bounds of the model.
MaxDim == 2       \* largest ncols / nrows a header line or a setter gives
MaxVal == 2       \* largest sample / NODATA value in the input
MaxParses == 1    \* calls of ReadEsriGridFromFile in one behaviour
MaxOps == 1       \* calls of the setters in one behaviour

VARIABLES
    ceg,          \* the ConcreteEsriGrid object
    noDataTest,   \* how the build reads the test of line 162
    pc,           \* position of ReadEsriGridFromFile: "idle", "header", "data"
    fieldNo,      \* header field to read next, 1..6
    lineNum,      \* local lineNum of ReadEsriGridFromFile
    row,          \* local row of the data loop
    result,       \* what the last call of ReadEsriGridFromFile returned
    crashed,      \* a run-time panic ended the program
    writes,       \* SetHeight calls made by the current / last parse
    input,        \* the data lines read by the current parse, while all are well formed
    last,         \* the last operation or step, with its arguments
    parses,       \* calls of ReadEsriGridFromFile so far
    ops,          \* setter calls so far
    img           \* the image of the demonstration program

vars == <<ceg, noDataTest, pc, fieldNo, lineNum, row, result, crashed,
          writes, input, last, parses, ops, img>>

----------------------------------------------------------------------------
\* Text.

SP == " "
TAB == "\t"
White == {SP, TAB}
DigitChars == <<"0", "1", "2", "3", "4", "5", "6", "7", "8", "9">>
IsDigit(c) == \E i \in 1..10 : DigitChars[i] = c
DigitVal(c) == (CHOOSE i \in 1..10 : DigitChars[i] = c) - 1
Numeral(n) == IF n < 0 THEN <<"-", DigitChars[1 - n]>> ELSE <<DigitChars[n + 1]>>

RECURSIVE TrimLeft(_)
TrimLeft(s) ==
    IF s # <<>> /\ Head(s) \in White THEN TrimLeft(Tail(s)) ELSE s

RECURSIVE TrimRight(_)
TrimRight(s) ==
    IF s # <<>> /\ s[Len(s)] \in White THEN TrimRight(SubSeq(s, 1, Len(s) - 1)) ELSE s

\* strings.TrimSpace
TrimSpace(s) == TrimRight(TrimLeft(s))

RECURSIVE DropSpaces(_)
DropSpaces(s) ==
    IF s # <<>> /\ Head(s) = SP THEN DropSpaces(Tail(s)) ELSE s

\* regexp "  +" with ReplaceAllLiteralString(s, " "): a run of two or more
\* spaces becomes one space; tabs are not touched.
RECURSIVE ReplaceAllLiteralString(_)
ReplaceAllLiteralString(s) ==
    IF Len(s) < 2 THEN s
    ELSE IF s[1] = SP /\ s[2] = SP
         THEN <<SP>> \o ReplaceAllLiteralString(DropSpaces(s))
         ELSE <<s[1]>> \o ReplaceAllLiteralString(Tail(s))

stripSpaces(s) == ReplaceAllLiteralString(TrimSpace(s))

\* strings.Split(s, " "): one more field than there are spaces.
RECURSIVE Split(_)
Split(s) ==
    IF \A i \in 1..Len(s) : s[i] # SP THEN <<s>>
    ELSE LET i == CHOOSE k \in 1..Len(s) : s[k] = SP /\ \A j \in 1..(k - 1) : s[j] # SP
         IN  <<SubSeq(s, 1, i - 1)>> \o Split(SubSeq(s, i + 1, Len(s)))

RECURSIVE LeadingDigits(_)
LeadingDigits(s) ==
    IF s # <<>> /\ IsDigit(Head(s)) THEN <<Head(s)>> \o LeadingDigits(Tail(s)) ELSE <<>>

RECURSIVE DecimalValue(_)
DecimalValue(ds) ==
    IF ds = <<>> THEN 0 ELSE 10 * DecimalValue(SubSeq(ds, 1, Len(ds) - 1)) + DigitVal(ds[Len(ds)])

\* fmt.Sscanf(tok, "%d", &result) and fmt.Sscanf(tok, "%f", &f): leading
\* white space is skipped, a sign and the digits that follow are read, and
\* what comes after them is left unread without an error.  No digit at all
\* is an error.  (The text of this model has no ".", "e" or "_".)
Sscanf(tok) ==
    LET t == TrimLeft(tok)
        neg == t # <<>> /\ Head(t) = "-"
        ds == LeadingDigits(IF neg THEN Tail(t) ELSE t)
    IN  IF ds = <<>> THEN [ok |-> FALSE, val |-> 0]
        ELSE [ok |-> TRUE, val |-> IF neg THEN 0 - DecimalValue(ds) ELSE DecimalValue(ds)]

----------------------------------------------------------------------------
\* The grid object.

MakeEsriGrid ==
    [ncols |-> 0, nrows |-> 0, xllcorner |-> 0, yllcorner |-> 0, cellsize |-> 0,
     noDataValue |-> 0, maxHeight |-> 0, minHeight |-> 0, height |-> <<>>,
     minHeightSet |-> FALSE, maxHeightSet |-> FALSE]

Ncols(g) == g.ncols
Nrows(g) == g.nrows
MaxHeight(g) == g.maxHeight
MinHeight(g) == g.minHeight

\* ceg.height[row][col] addresses an element of the slices.
InMatrix(g, r, c) ==
    /\ 0 <= r /\ r < Len(g.height)
    /\ 0 <= c /\ c < Len(g.height[r + 1])

Height(g, r, c) == g.height[r + 1][c + 1]

\* Line 162, "if height = noDataValue": an assignment where a condition is
\* required.  Read as the assignment it is, height becomes the no-data value
\* and the branch is taken when that value is not zero; read as the
\* comparison it was meant to be, height is unchanged and the branch is
\* taken on equality.
AssignedHeight(g, h) == IF noDataTest = "assign" THEN g.noDataValue ELSE h
NoDataBranch(g, h) ==
    IF noDataTest = "assign" THEN g.noDataValue # 0 ELSE h = g.noDataValue

UpdateMax(g, h) ==
    IF g.maxHeightSet
    THEN IF h > g.maxHeight THEN [g EXCEPT !.maxHeight = h] ELSE g
    ELSE [g EXCEPT !.maxHeight = h, !.maxHeightSet = TRUE]

UpdateMin(g, h) ==
    IF g.minHeightSet
    THEN IF h < g.minHeight THEN [g EXCEPT !.minHeight = h] ELSE g
    ELSE [g EXCEPT !.minHeight = h, !.minHeightSet = TRUE]

\* SetHeight: the grid afterwards, and whether the index expression of line
\* 160 panicked.
SetHeight(g, r, c, h) ==
    IF r >= g.nrows \/ c >= g.ncols THEN [ceg |-> g, panic |-> FALSE]
    ELSE IF ~InMatrix(g, r, c) THEN [ceg |-> g, panic |-> TRUE]
    ELSE LET g1 == [g EXCEPT !.height[r + 1][c + 1] = h]
         IN  IF NoDataBranch(g1, h) THEN [ceg |-> g1, panic |-> FALSE]
             ELSE [ceg |-> UpdateMin(UpdateMax(g1, AssignedHeight(g1, h)),
                                     AssignedHeight(g1, h)),
                   panic |-> FALSE]

----------------------------------------------------------------------------
\* The input: what bufio.Reader.ReadString('\n') can return.  kind "line" is
\* text ended by a newline, "eof" is the text before the end of the input
\* returned with io.EOF, "ioerr" is any other read error.

Name == <<"n">>
DimTokens == {Numeral(n) : n \in (0 - 1)..MaxDim}
ValTokens == {Numeral(n) : n \in 0..MaxVal}
BadTokens == {<<"x">>, <<"1", "x">>}

RECURSIVE Join(_, _)
Join(ts, sep) ==
    IF ts = <<>> THEN <<>>
    ELSE IF Len(ts) = 1 THEN ts[1]
    ELSE ts[1] \o sep \o Join(Tail(ts), sep)

NoValueTexts == {<<>>, Name, Name \o <<TAB>> \o Numeral(1)}

HeaderTokens(f) ==
    IF f \in {1, 2} THEN DimTokens
    ELSE IF f = 6 THEN ValTokens
    ELSE {Numeral(1)}

HeaderTexts(f) ==
    {Name \o <<SP>> \o t : t \in HeaderTokens(f) \cup BadTokens}
        \cup {<<SP>> \o Name \o <<SP, SP, SP>> \o Numeral(1) \o <<SP>>}
        \cup NoValueTexts

HeaderInputs(f) ==
    {[kind |-> "line", text |-> t] : t \in HeaderTexts(f)}
        \cup {[kind |-> "eof", text |-> t] : t \in {<<>>, Name \o <<SP>> \o Numeral(1)}}
        \cup {[kind |-> "ioerr", text |-> <<>>]}

\* Token k (from 0) of the representative lines.
Sample(k) == Numeral((k + 1) % (MaxVal + 1))
Samples(n) == [k \in 1..n |-> Sample(k - 1)]

\* The well-formed lines of n tokens offered to the data loop: the values in
\* a run from a, and the same value a in every column.
RunLine(a, n) == [k \in 1..n |-> Numeral((k - 1 + a) % (MaxVal + 1))]
FlatLine(a, n) == [k \in 1..n |-> Numeral(a)]
GoodLines(n) == {RunLine(a, n) : a \in 0..MaxVal} \cup {FlatLine(a, n) : a \in 0..MaxVal}

DataTexts(n) ==
    LET m == IF n < 0 THEN 0 ELSE n
    IN  {Join(ts, <<SP>>) : ts \in GoodLines(m)}
        \cup {Join([Samples(m) EXCEPT ![c] = b], <<SP>>) : c \in 1..m, b \in BadTokens}
        \cup {Join(Samples(m + 1), <<SP>>)}
        \cup {Join(Samples(m - 1), <<SP>>) : k \in 1..m}
        \cup {<<SP>> \o Join(Samples(m), <<SP, SP>>) \o <<SP>>}
        \cup {Join(Samples(m), <<TAB>>)}
        \cup {<<>>}

DataInputs(n) ==
    {[kind |-> "line", text |-> t] : t \in DataTexts(n)}
        \cup {[kind |-> "eof", text |-> t] : t \in {<<>>, Join(Samples(n), <<SP>>)}}
        \cup {[kind |-> "ioerr", text |-> <<>>]}

----------------------------------------------------------------------------
\* The parser.

\* readIntFromHeader: "err" with value 0, "panic" at field[1], or the value.
readIntFromHeader(inp) ==
    IF inp.kind # "line" THEN [out |-> "err", val |-> 0]
    ELSE LET field == Split(stripSpaces(inp.text))
         IN  IF Len(field) < 2 THEN [out |-> "panic", val |-> 0]
             ELSE IF ~Sscanf(field[2]).ok THEN [out |-> "err", val |-> 0]
             ELSE [out |-> "ok", val |-> Sscanf(field[2]).val]

readFloat32FromHeader(inp) ==
    IF inp.kind # "line" THEN [out |-> "err", val |-> 0]
    ELSE LET field == Split(stripSpaces(inp.text))
         IN  IF Len(field) < 2 THEN [out |-> "panic", val |-> 0]
             ELSE IF ~Sscanf(field[2]).ok THEN [out |-> "err", val |-> 0]
             ELSE [out |-> "ok", val |-> Sscanf(field[2]).val]

\* The assignment "ceg.<field>, err = read...FromHeader(...)" of header f.
SetField(g, f, v) ==
    CASE f = 1 -> [g EXCEPT !.ncols = v]
      [] f = 2 -> [g EXCEPT !.nrows = v]
      [] f = 3 -> [g EXCEPT !.xllcorner = v]
      [] f = 4 -> [g EXCEPT !.yllcorner = v]
      [] f = 5 -> [g EXCEPT !.cellsize = v]
      [] f = 6 -> [g EXCEPT !.noDataValue = v]

\* make([][]float32, nrows) and make([]float32, ncols) for each row: make
\* panics on a negative length.
MakePanics(g) == g.nrows < 0 \/ (g.nrows > 0 /\ g.ncols < 0)
Allocate(g) == [g EXCEPT !.height = [i \in 1..g.nrows |-> [j \in 1..g.ncols |-> 0]]]

\* The loop "for col := range numbers" of one data line, from column col on.
RECURSIVE ParseNumbers(_, _, _, _, _)
ParseNumbers(g, r, numbers, col, w) ==
    IF col >= Len(numbers) THEN [ceg |-> g, out |-> "ok", writes |-> w]
    ELSE IF ~Sscanf(numbers[col + 1]).ok THEN [ceg |-> g, out |-> "err", writes |-> w]
    ELSE LET s == SetHeight(g, r, col, Sscanf(numbers[col + 1]).val)
             w1 == Append(w, <<r, col, Sscanf(numbers[col + 1]).val>>)
         IN  IF s.panic THEN [ceg |-> s.ceg, out |-> "panic", writes |-> w1]
             ELSE ParseNumbers(s.ceg, r, numbers, col + 1, w1)

\* One pass of the data loop on a line that was read and is not beyond the
\* expected lines: "skip" for a wrong number of fields.
ParseLine(g, r, text, w) ==
    LET numbers == Split(stripSpaces(text))
    IN  IF Len(numbers) > g.ncols \/ Len(numbers) < g.ncols
        THEN [ceg |-> g, out |-> "skip", writes |-> w]
        ELSE ParseNumbers(g, r, numbers, 0, w)

\* linesExpected counting one line too many.
linesExpectedOneMore(g) == g.nrows + 7

linesExpected(g) == g.nrows + 6

----------------------------------------------------------------------------
\* The input as the file format describes it, for the record the parse keeps
\* of what it was given (not used by the parser above).

\* The tokens of a line: the runs of characters between spaces.
RECURSIVE Tokens(_)
Tokens(s) ==
    IF s = <<>> THEN <<>>
    ELSE IF Head(s) = SP THEN Tokens(Tail(s))
    ELSE LET n == CHOOSE k \in 1..Len(s) :
                      /\ \A j \in 1..k : s[j] # SP
                      /\ (k = Len(s) \/ s[k + 1] = SP)
         IN  <<SubSeq(s, 1, n)>> \o Tokens(SubSeq(s, n + 1, Len(s)))

\* A decimal number: an optional sign and digits, nothing else.
IsNumber(tok) ==
    LET d == IF tok # <<>> /\ Head(tok) = "-" THEN Tail(tok) ELSE tok
    IN  d # <<>> /\ \A i \in 1..Len(d) : IsDigit(d[i])

NumberValue(tok) ==
    IF Head(tok) = "-" THEN 0 - DecimalValue(Tail(tok)) ELSE DecimalValue(tok)

\* Tokens separated by single spaces, nothing before or after.
SingleSpaced(s) == s = Join(Tokens(s), <<SP>>)

\* A header line "name <spaces> number".
ValidHeader(inp) ==
    /\ inp.kind = "line"
    /\ Len(Tokens(inp.text)) = 2
    /\ Head(inp.text) # SP /\ inp.text[Len(inp.text)] # SP
    /\ IsNumber(Tokens(inp.text)[2])

\* A data line of exactly n numbers, ended by a newline or by the end of
\* the input.
ValidData(inp, n) ==
    /\ inp.kind \in {"line", "eof"}
    /\ SingleSpaced(inp.text)
    /\ Len(Tokens(inp.text)) = n
    /\ \A k \in 1..n : IsNumber(Tokens(inp.text)[k])

NumberValues(text) == [k \in 1..Len(Tokens(text)) |-> NumberValue(Tokens(text)[k])]

NoInput == [wf |-> TRUE, hdr |-> <<>>, rows |-> <<>>]
BadInput == [wf |-> FALSE, hdr |-> <<>>, rows |-> <<>>]

HeaderSeen(inp) ==
    IF input.wf /\ ValidHeader(inp)
    THEN [input EXCEPT !.hdr = Append(@, NumberValue(Tokens(inp.text)[2]))]
    ELSE BadInput

\* The end of the input after the last line is no line.
DataSeen(inp) ==
    IF inp.kind = "eof" /\ inp.text = <<>> THEN input
    ELSE IF input.wf /\ ValidData(inp, input.hdr[1])
    THEN [input EXCEPT !.rows = Append(@, NumberValues(inp.text))]
    ELSE BadInput

----------------------------------------------------------------------------
\* The demonstration program (esrigrid.go).

\* image.Rect(x0, y0, x1, y1): the corners put in order.
Rect(x0, y0, x1, y1) ==
    [MinX |-> IF x0 <= x1 THEN x0 ELSE x1, MinY |-> IF y0 <= y1 THEN y0 ELSE y1,
     MaxX |-> IF x0 <= x1 THEN x1 ELSE x0, MaxY |-> IF y0 <= y1 THEN y1 ELSE y0]

Dx(r) == r.MaxX - r.MinX
Dy(r) == r.MaxY - r.MinY
Points(r) == {<<x, y>> : x \in r.MinX..(r.MaxX - 1), y \in r.MinY..(r.MaxY - 1)}

\* image.NewRGBA(r): every pixel clear, written <<>>.
NewRGBA(r) == [Rect |-> r, Pix |-> [p \in Points(r) |-> <<>>]]

\* (*image.RGBA).Set(x, y, c): a point outside the rectangle is ignored.
ImageSet(m, x, y, c) ==
    IF <<x, y>> \in Points(m.Rect) THEN [m EXCEPT !.Pix[<<x, y>>] = c] ELSE m

\* The colour of a pixel is kept as the cell it was computed from; the grey
\* level that shade() gives it is not modelled.
CellColour(r, c) == <<r, c>>

\* The image of main, line 76.
MainImage(g) == NewRGBA(Rect(0, 0, Nrows(g), Ncols(g)))

\* The loops of lines 77-85, from cell k on in row-major order.
RECURSIVE Paint(_, _, _)
Paint(m, g, k) ==
    IF Ncols(g) <= 0 \/ k >= Nrows(g) * Ncols(g) THEN m
    ELSE Paint(ImageSet(m, k % Ncols(g), k \div Ncols(g),
                        CellColour(k \div Ncols(g), k % Ncols(g))), g, k + 1)

\* pc.Height(row, col) of line 79 panics outside the matrix.
PaintPanics(g) ==
    \E r \in 0..(Nrows(g) - 1), c \in 0..(Ncols(g) - 1) : ~InMatrix(g, r, c)

NoImage == NewRGBA(Rect(0, 0, 0, 0))

----------------------------------------------------------------------------
Init ==
    /\ ceg = MakeEsriGrid
    /\ noDataTest \in {"assign", "equal"}
    /\ pc = "idle"
    /\ fieldNo = 0
    /\ lineNum = 0
    /\ row = 0
    /\ result = "none"
    /\ crashed = FALSE
    /\ writes = <<>>
    /\ input = NoInput
    /\ last = [op |-> "MakeEsriGrid", args |-> <<>>]
    /\ parses = 0
    /\ ops = 0
    /\ img = NoImage

\* os.Open and the start of ReadEsriGridFromFile.
Open(opened) ==
    /\ pc = "idle" /\ ~crashed /\ parses < MaxParses
    /\ parses' = parses + 1
    /\ last' = [op |-> "Open", args |-> <<opened>>]
    /\ writes' = <<>>
    /\ input' = NoInput
    /\ lineNum' = 0
    /\ row' = 0
    /\ IF opened
       THEN pc' = "header" /\ fieldNo' = 1 /\ result' = "none"
       ELSE pc' = "idle" /\ fieldNo' = 0 /\ result' = "err"
    /\ UNCHANGED <<ceg, noDataTest, crashed, ops, img>>

\* One header line: lines 229-290.
ReadHeader(inp) ==
    /\ pc = "header" /\ ~crashed
    /\ LET r == IF fieldNo <= 2 THEN readIntFromHeader(inp) ELSE readFloat32FromHeader(inp)
           g == SetField(ceg, fieldNo, r.val)
       IN  /\ last' = [op |-> "ReadHeader", args |-> <<fieldNo, inp>>]
           /\ input' = HeaderSeen(inp)
           /\ CASE r.out = "panic" ->
                     /\ crashed' = TRUE /\ result' = "panic"
                     /\ UNCHANGED <<ceg, pc, fieldNo, lineNum>>
                [] r.out = "err" ->
                     /\ ceg' = g /\ result' = "err" /\ pc' = "idle"
                     /\ UNCHANGED <<crashed, fieldNo, lineNum>>
                [] r.out = "ok" /\ fieldNo = 2 /\ MakePanics(g) ->
                     /\ ceg' = g /\ crashed' = TRUE /\ result' = "panic"
                     /\ lineNum' = lineNum + 1
                     /\ UNCHANGED <<pc, fieldNo>>
                [] OTHER ->
                     /\ ceg' = IF fieldNo = 2 THEN Allocate(g) ELSE g
                     /\ lineNum' = lineNum + 1
                     /\ fieldNo' = IF fieldNo = 6 THEN 0 ELSE fieldNo + 1
                     /\ pc' = IF fieldNo = 6 THEN "data" ELSE "header"
                     /\ UNCHANGED <<crashed, result>>
    /\ UNCHANGED <<noDataTest, row, writes, parses, ops, img>>

\* One pass of the data loop: lines 303-348, and 350-357 when it ends.
ReadData(inp) ==
    /\ pc = "data" /\ ~crashed
    /\ last' = [op |-> "ReadData", args |-> <<row, inp>>]
    /\ input' = DataSeen(inp)
    /\ IF inp.kind # "line"
       THEN /\ result' = "nil" /\ pc' = "idle"
            /\ UNCHANGED <<ceg, lineNum, row, crashed, writes>>
       ELSE IF lineNum + 1 > linesExpected(ceg)
       THEN /\ result' = "nil" /\ pc' = "idle" /\ lineNum' = lineNum + 1
            /\ UNCHANGED <<ceg, row, crashed, writes>>
       ELSE LET p == ParseLine(ceg, row, inp.text, writes)
            IN  /\ ceg' = p.ceg
                /\ writes' = p.writes
                /\ lineNum' = lineNum + 1
                /\ CASE p.out = "err" ->
                          result' = "err" /\ pc' = "idle" /\ UNCHANGED <<row, crashed>>
                     [] p.out = "panic" ->
                          result' = "panic" /\ crashed' = TRUE /\ UNCHANGED <<row, pc>>
                     [] OTHER ->
                          row' = row + 1 /\ UNCHANGED <<result, pc, crashed>>
    /\ UNCHANGED <<noDataTest, fieldNo, parses, ops, img>>

\* The setters, called between parses.
Setter(op, args, g, panicked) ==
    /\ pc = "idle" /\ ~crashed /\ ops < MaxOps
    /\ ops' = ops + 1
    /\ last' = [op |-> op, args |-> args]
    /\ ceg' = g
    /\ crashed' = panicked
    /\ writes' = <<>>
    /\ input' = NoInput
    /\ UNCHANGED <<noDataTest, pc, fieldNo, lineNum, row, result, parses, img>>

SetNCols(n) == Setter("SetNCols", <<n>>, [ceg EXCEPT !.ncols = n], FALSE)
SetNRows(n) == Setter("SetNRows", <<n>>, [ceg EXCEPT !.nrows = n], FALSE)
SetNoDataValue(v) == Setter("SetNoDataValue", <<v>>, [ceg EXCEPT !.noDataValue = v], FALSE)
CallSetHeight(r, c, v) ==
    Setter("SetHeight", <<r, c, v>>, SetHeight(ceg, r, c, v).ceg, SetHeight(ceg, r, c, v).panic)

Dims == 0..MaxDim
Indexes == (0 - 1)..MaxDim
Values == 0..MaxVal

Next ==
    \/ \E opened \in BOOLEAN : Open(opened)
    \/ \E inp \in HeaderInputs(fieldNo) : ReadHeader(inp)
    \/ \E inp \in DataInputs(ceg.ncols) : ReadData(inp)
    \/ \E n \in Dims : SetNCols(n)
    \/ \E n \in Dims : SetNRows(n)
    \/ \E v \in Values : SetNoDataValue(v)
    \/ \E r \in Indexes, c \in Indexes, v \in Values : CallSetHeight(r, c, v)

Spec == Init /\ [][Next]_vars

\* One call of ReadEsriGridFromFile on the grid of MakeEsriGrid().
NextParse ==
    \/ \E opened \in BOOLEAN : parses = 0 /\ Open(opened)
    \/ \E inp \in HeaderInputs(fieldNo) : ReadHeader(inp)
    \/ \E inp \in DataInputs(ceg.ncols) : ReadData(inp)

SpecParse == Init /\ [][NextParse]_vars

\* main, lines 64-88, after ReadEsriGridFromFile has returned nil.
Render ==
    /\ pc = "idle" /\ ~crashed /\ result = "nil" /\ last.op = "ReadData"
    /\ last' = [op |-> "Render", args |-> <<>>]
    /\ IF PaintPanics(ceg)
       THEN crashed' = TRUE /\ UNCHANGED <<pc, img>>
       ELSE crashed' = FALSE /\ pc' = "done" /\ img' = Paint(MainImage(ceg), ceg, 0)
    /\ UNCHANGED <<ceg, noDataTest, fieldNo, lineNum, row, result, writes, input, parses, ops>>

\* The demonstration program: one parse of a new grid, then the image.
NextMain ==
    \/ NextParse
    \/ Render

SpecMain == Init /\ [][NextMain]_vars

\* A second call of ReadEsriGridFromFile on the grid the first call left.
Reopen(opened) ==
    /\ pc = "idle" /\ ~crashed /\ parses = 1
    /\ parses' = parses + 1
    /\ last' = [op |-> "Open", args |-> <<opened>>]
    /\ writes' = <<>>
    /\ input' = NoInput
    /\ lineNum' = 0
    /\ row' = 0
    /\ IF opened
       THEN pc' = "header" /\ fieldNo' = 1 /\ result' = "none"
       ELSE pc' = "idle" /\ fieldNo' = 0 /\ result' = "err"
    /\ UNCHANGED <<ceg, noDataTest, crashed, ops, img>>

\* Two calls of ReadEsriGridFromFile, one after the other, on one grid.
NextReparse ==
    \/ NextParse
    \/ \E opened \in BOOLEAN : Reopen(opened)

SpecReparse == Init /\ [][NextReparse]_vars

\* The grid that ReadEsriGridFromFile would have built from MakeEsriGrid()
\* when it reaches the data loop with the header fields that g holds.
FreshGrid(g) ==
    Allocate([MakeEsriGrid EXCEPT !.ncols = g.ncols, !.nrows = g.nrows,
                                  !.xllCorner = g.xllCorner, !.yllCorner = g.yllCorner,
                                  !.cellSize = g.cellSize, !.noDataValue = g.noDataValue])

\* The calls of SetHeight in w, from call k on, made on grid g.
RECURSIVE Replay(_, _, _)
Replay(g, w, k) ==
    IF k > Len(w) THEN g
    ELSE Replay(SetHeight(g, w[k][1], w[k][2], w[k][3]).ceg, w, k + 1)

----------------------------------------------------------------------------
\* What the properties below speak of.

Extrema(g) == <<g.minHeight, g.maxHeight, g.minHeightSet, g.maxHeightSet>>

\* The step is a call SetHeight(r, c, v) from outside the parser.
SetHeightStep(r, c, v) ==
    /\ ops' = ops + 1
    /\ last' = [op |-> "SetHeight", args |-> <<r, c, v>>]

InRange(g, r, c) == 0 <= r /\ r < g.nrows /\ 0 <= c /\ c < g.ncols

\* The step reads header line inp / reads inp in the data loop.
HeaderStep(inp) == pc = "header" /\ last' = [op |-> "ReadHeader", args |-> <<fieldNo, inp>>]
DataStep(inp) == pc = "data" /\ last' = [op |-> "ReadData", args |-> <<row, inp>>]

\* ReadEsriGridFromFile has returned and nothing was called since.
Returned == pc = "idle" /\ ~crashed /\ last.op \in {"Open", "ReadHeader", "ReadData"}

\* Column (from 1) of the first token of a line that is not a number, 0 if none.
FirstBad(toks) ==
    IF \A k \in 1..Len(toks) : IsNumber(toks[k]) THEN 0
    ELSE CHOOSE k \in 1..Len(toks) :
             ~IsNumber(toks[k]) /\ \A j \in 1..(k - 1) : IsNumber(toks[j])

\* C1: a call SetHeight(row, col, v) in range with v equal to the grid's
\* noDataValue leaves MinHeight(), MaxHeight() and the two set flags as they
\* were; so only a v that differs from noDataValue can change them.
C1_NoDataKeepsExtrema ==
    [][\A r \in Indexes, c \in Indexes, v \in Values :
          (SetHeightStep(r, c, v) /\ InRange(ceg, r, c) /\ v = ceg.noDataValue)
              => Extrema(ceg') = Extrema(ceg)]_vars

\* C2: when ReadEsriGridFromFile has returned success on a fresh grid, every
\* sample it wrote through SetHeight that is not noDataValue lies between
\* MinHeight() and MaxHeight().
C2_SamplesWithinExtrema ==
    (Returned /\ result = "nil" /\ parses = 1 /\ ops = 0)
        => \A i \in 1..Len(writes) :
               writes[i][3] # ceg.noDataValue
                   => (MinHeight(ceg) <= writes[i][3] /\ writes[i][3] <= MaxHeight(ceg))

\* C3: a call SetHeight(row, col, v) with (row, col) out of range, too large
\* or negative, returns normally and changes nothing of the grid.
C3_OutOfRangeRejected ==
    [][\A r \in Indexes, c \in Indexes, v \in Values :
          (SetHeightStep(r, c, v) /\ ~InRange(ceg, r, c))
              => (~crashed' /\ ceg' = ceg)]_vars

\* C4: for a well-formed input (six valid header lines with positive ncols
\* and nrows, then exactly nrows lines of exactly ncols numbers, the last
\* ended by a newline or by the end of the input) ReadEsriGridFromFile
\* returns success with data line k in row k, token j in column j.
C4_WellFormedStored ==
    (/\ pc = "idle" /\ last.op = "ReadData"
     /\ input.wf /\ Len(input.hdr) = 6
     /\ input.hdr[1] >= 1 /\ input.hdr[2] >= 1
     /\ Len(input.rows) = input.hdr[2])
        => /\ result = "nil" /\ ~crashed
           /\ Nrows(ceg) = input.hdr[2] /\ Ncols(ceg) = input.hdr[1]
           /\ \A k \in 0..(input.hdr[2] - 1), j \in 0..(input.hdr[1] - 1) :
                  InMatrix(ceg, k, j) /\ Height(ceg, k, j) = input.rows[k + 1][j + 1]

\* C5: a data line whose token count differs from ncols brings no error,
\* none of its tokens is written, and the grid (the cells of its row, the
\* extrema) is as it was before the line was read.
C5_WrongCountSkipped ==
    [][\A inp \in DataInputs(ceg.ncols) :
          (DataStep(inp) /\ inp.kind = "line" /\ Len(Tokens(inp.text)) # ceg.ncols)
              => (result' # "err" /\ ~crashed' /\ writes' = writes /\ ceg' = ceg)]_vars

\* C6: a header line whose value token is not a number makes
\* ReadEsriGridFromFile return an error at that line: no further line is
\* read and SetHeight is never called.
C6_BadHeaderValueIsError ==
    [][\A inp \in HeaderInputs(fieldNo) :
          (/\ HeaderStep(inp) /\ inp.kind = "line"
           /\ Len(Tokens(inp.text)) >= 2 /\ ~IsNumber(Tokens(inp.text)[2]))
              => (result' = "err" /\ pc' = "idle" /\ ~crashed' /\ writes' = <<>>)]_vars

\* C7: a header line without a value token (empty, the name alone, or name
\* and value not separated by a space) makes ReadEsriGridFromFile return an
\* error; it ends in no other way.
C7_MissingHeaderValueIsError ==
    [][\A inp \in HeaderInputs(fieldNo) :
          (HeaderStep(inp) /\ inp.kind = "line" /\ Len(Tokens(inp.text)) < 2)
              => (result' = "err" /\ pc' = "idle" /\ ~crashed')]_vars

\* C8: a data line of exactly ncols tokens whose token at column c is the
\* first that is not a number makes ReadEsriGridFromFile return an error at
\* once: columns 0..c-1 of the row were written from left to right, and
\* nothing else.
C8_BadTokenStopsParse ==
    [][\A inp \in DataInputs(ceg.ncols) :
          (/\ DataStep(inp) /\ inp.kind = "line" /\ row < ceg.nrows
           /\ Len(Tokens(inp.text)) = ceg.ncols /\ FirstBad(Tokens(inp.text)) # 0)
              => LET toks == Tokens(inp.text)
                     c == FirstBad(toks) - 1
                 IN  /\ result' = "err" /\ pc' = "idle" /\ ~crashed'
                     /\ writes' = writes \o [k \in 1..c |-> <<row, k - 1, NumberValue(toks[k])>>]
                     /\ \A r \in 0..(ceg.nrows - 1), j \in 0..(ceg.ncols - 1) :
                            Height(ceg', r, j) =
                                IF r = row /\ j < c THEN NumberValue(toks[j + 1])
                                ELSE Height(ceg, r, j)]_vars

\* C9: a failure to open the input, and a failure to read it that is not
\* the end of the input, in a header line or in a data line, make
\* ReadEsriGridFromFile return an error.
C9_IOFailureIsError ==
    [][/\ (pc = "idle" /\ last' = [op |-> "Open", args |-> <<FALSE>>]) => result' = "err"
       /\ \A inp \in HeaderInputs(fieldNo) :
              (HeaderStep(inp) /\ inp.kind = "ioerr") => result' = "err"
       /\ \A inp \in DataInputs(ceg.ncols) :
              (DataStep(inp) /\ inp.kind = "ioerr") => result' = "err"]_vars

\* C10: a line read after rowCount data lines is not stored: the grid and
\* the record of SetHeight calls stay as they are whatever the line holds,
\* ReadEsriGridFromFile returns success, no SetHeight call of the parse has a
\* row >= rowCount, and when the lines before it were lines of ncols numbers
\* the grid holds exactly the first rowCount of them.
C10_ExtraLinesIgnored ==
    [][(pc = "data" /\ last'.op = "ReadData" /\ last'.args[2].kind = "line" /\ row >= ceg.nrows)
              => /\ ceg' = ceg /\ writes' = writes
                 /\ result' = "nil" /\ pc' = "idle" /\ ~crashed'
                 /\ \A i \in 1..Len(writes') : writes'[i][1] < ceg.nrows
                 /\ input.wf =>
                        /\ Len(input.rows) = ceg.nrows
                        /\ \A k \in 0..(ceg.nrows - 1), j \in 0..(ceg.ncols - 1) :
                               Height(ceg', k, j) = input.rows[k + 1][j + 1]]_vars

\* C10's case: ReadEsriGridFromFile has stored rowCount >= 1 data lines and
\* returned success on reading one more line, which is no line of numbers.
C10_Witness ==
    /\ Returned /\ result = "nil" /\ last.op = "ReadData"
    /\ ceg.nrows >= 1 /\ ceg.ncols >= 1
    /\ last.args[1] = ceg.nrows
    /\ last.args[2].kind = "line"
    /\ FirstBad(Tokens(last.args[2].text)) # 0
    /\ Len(writes) = ceg.nrows * ceg.ncols

\* C11: the image of the demonstration program is ncols wide and nrows
\* high, and every cell (row, col) of the grid has its own pixel at x = col,
\* y = row: no cell's pixel is dropped.
C11_OnePixelPerCell ==
    pc = "done" =>
        /\ Dx(img.Rect) = Ncols(ceg) /\ Dy(img.Rect) = Nrows(ceg)
        /\ \A r \in 0..(Nrows(ceg) - 1), c \in 0..(Ncols(ceg) - 1) :
               /\ <<c, r>> \in DOMAIN img.Pix
               /\ img.Pix[<<c, r>>] = CellColour(r, c)

\* C12: whenever no operation is running, the sample matrix has exactly
\* Nrows() rows of exactly Ncols() entries; SetHeight(row, col, v) with
\* 0 <= row < Nrows() and 0 <= col < Ncols() then addresses an existing cell
\* and makes Height(row, col) return v.
C12_MatrixMatchesDimensions ==
    (pc = "idle" /\ ~crashed) =>
        /\ Len(ceg.height) = Nrows(ceg)
        /\ \A i \in 1..Len(ceg.height) : Len(ceg.height[i]) = Ncols(ceg)
        /\ \A r \in Indexes, c \in Indexes, v \in Values :
               InRange(ceg, r, c) =>
                   /\ InMatrix(ceg, r, c)
                   /\ ~SetHeight(ceg, r, c, v).panic
                   /\ Height(SetHeight(ceg, r, c, v).ceg, r, c) = v

====
